---- MODULE Spec2Model ----
(***************************************************************************)
(* SalarySurveyTransformer.transform (src/scripts/transform.py) as a state *)
(* machine: one action per statement group of transform() and one action   *)
(* per cleaning step, over a pandas DataFrame modelled as a column list,   *)
(* an index and a list of rows.                                            *)
(*                                                                         *)
(* Text is a sequence of characters.  A character is a one-character       *)
(* string; a character outside ASCII is named by its code point            *)
(* ("U+00E9").  Join(s) is the same text as a TLA+ string, used to look a  *)
(* text up in the program's tables and to compare it with a literal.       *)
(*                                                                         *)
(* Domain of the model: every column of an input table is an object-dtype  *)
(* column, whose cells are text or missing (one missing value, NULL,       *)
(* stands for None/NaN/pd.NA); numeric cells and numeric dtypes are not    *)
(* modelled.                                                               *)
(***************************************************************************)
EXTENDS Integers, Sequences, FiniteSets, TLC

\* ------------------------------------------------------------------ bounds
\* At most MaxRows rows in an input table.
MaxRows == 2

\* ------------------------------------------------------------- characters
\* The missing value.  No text equals it: "NaN" is not a character.
NULL == <<"NaN">>

IsText(v) == v # NULL

\* Printable ASCII, in code point order from 32 (space) to 126 (~); the
\* grave accent, 96, is written by its code point.
Ascii ==
  << " ", "!", "\"", "#", "$", "%", "&", "'", "(", ")", "*", "+", ",", "-", ".", "/",
     "0", "1", "2", "3", "4", "5", "6", "7", "8", "9", ":", ";", "<", "=", ">", "?",
     "@", "A", "B", "C", "D", "E", "F", "G", "H", "I", "J", "K", "L", "M", "N", "O",
     "P", "Q", "R", "S", "T", "U", "V", "W", "X", "Y", "Z", "[", "\\", "]", "^", "_",
     "U+0060", "a", "b", "c", "d", "e", "f", "g", "h", "i", "j", "k", "l", "m", "n", "o",
     "p", "q", "r", "s", "t", "u", "v", "w", "x", "y", "z", "{", "|", "}", "~" >>

\* The characters outside printable ASCII that the model's texts use or can
\* produce, with their code points: TAB, (c), A-tilde, E-acute, a-tilde,
\* e-acute, and U+0269 (what the bytes C9 A9 decode to).
OtherChars ==
  << <<"\t", 9>>, <<"U+00A9", 169>>, <<"U+00C3", 195>>, <<"U+00C9", 201>>,
     <<"U+00E3", 227>>, <<"U+00E9", 233>>, <<"U+0269", 617>> >>

Chars == { Ascii[i] : i \in DOMAIN Ascii } \cup { OtherChars[i][1] : i \in DOMAIN OtherChars }

\* Code point of a character, and the character of a code point.
OrdMap ==
  [ c \in Chars |->
      IF \E i \in DOMAIN Ascii : Ascii[i] = c
      THEN 31 + (CHOOSE i \in DOMAIN Ascii : Ascii[i] = c)
      ELSE (CHOOSE p \in { OtherChars[i] : i \in DOMAIN OtherChars } : p[1] = c)[2] ]

Ord(c) == OrdMap[c]

Chr(n) ==
  IF n \in 32..126 THEN Ascii[n - 31]
  ELSE (CHOOSE p \in { OtherChars[i] : i \in DOMAIN OtherChars } : p[2] = n)[1]

HasChr(n) == n \in 32..126 \/ \E i \in DOMAIN OtherChars : OtherChars[i][2] = n

\* Python's character classes, on the code points of the model's alphabet.
IsUpperCp(n) == n \in 65..90 \/ (n \in 192..222 /\ n # 215)
IsLowerCp(n) == n \in 97..122 \/ (n \in 223..255 /\ n # 247) \/ n = 617
IsDigit(c) == Ord(c) \in 48..57
IsSpace(c) == Ord(c) \in {9, 10, 11, 12, 13, 32}
IsCased(c) == IsUpperCp(Ord(c)) \/ IsLowerCp(Ord(c))
\* \w : letters, digits and the underscore
IsWord(c) == IsCased(c) \/ IsDigit(c) \/ Ord(c) = 95

\* str.lower() and str.upper() of one character.  U+0269 has no upper-case
\* form in the model's alphabet and is left as it is.
LowerChar(c) ==
  IF IsUpperCp(Ord(c)) /\ HasChr(Ord(c) + 32) THEN Chr(Ord(c) + 32) ELSE c
UpperChar(c) ==
  IF IsLowerCp(Ord(c)) /\ Ord(c) < 256 /\ Ord(c) # 223 /\ Ord(c) # 255 /\ HasChr(Ord(c) - 32)
  THEN Chr(Ord(c) - 32) ELSE c

\* ------------------------------------------------------------------- text
RECURSIVE Join(_)
Join(s) == IF s = <<>> THEN "" ELSE Head(s) \o Join(Tail(s))

Lower(s) == [ i \in DOMAIN s |-> LowerChar(s[i]) ]
Upper(s) == [ i \in DOMAIN s |-> UpperChar(s[i]) ]

\* str.title(): a cased character is upper-cased when the character before it
\* is not cased, lower-cased when it is.
Title(s) ==
  [ i \in DOMAIN s |->
      IF ~IsCased(s[i]) THEN s[i]
      ELSE IF i > 1 /\ IsCased(s[i - 1]) THEN LowerChar(s[i]) ELSE UpperChar(s[i]) ]

IsBlank(s) == \A i \in DOMAIN s : IsSpace(s[i])

\* str.strip()
RECURSIVE LStrip(_)
LStrip(s) == IF s # <<>> /\ IsSpace(Head(s)) THEN LStrip(Tail(s)) ELSE s
RECURSIVE RStrip(_)
RStrip(s) ==
  IF s # <<>> /\ IsSpace(s[Len(s)]) THEN RStrip(SubSeq(s, 1, Len(s) - 1)) ELSE s
Strip(s) == RStrip(LStrip(s))

\* re.sub(r'\s+', ' ', s)
RECURSIVE CollapseSpaces(_)
CollapseSpaces(s) ==
  IF s = <<>> THEN <<>>
  ELSE IF IsSpace(Head(s))
       THEN <<" ">> \o CollapseSpaces(LStrip(s))
       ELSE <<Head(s)>> \o CollapseSpaces(Tail(s))

\* re.sub(r'[^\w\s]', '', s)
IsWordOrSpace(c) == IsWord(c) \/ IsSpace(c)
DeletePunctuation(s) == SelectSeq(s, IsWordOrSpace)

\* re.sub(r'[^0-9.]', '', s)
IsDigitOrDot(c) == IsDigit(c) \/ c = "."
\* Mutant of KeepDigitsAndDot: the '.' is deleted too.
KeepDigitsOnly(s) == SelectSeq(s, IsDigit)
KeepDigitsAndDot(s) == SelectSeq(s, IsDigitOrDot)

\* Mutant of FirstCommaSegment: the text is not split.
WholeText(s) == s

\* s.split(',')[0]
RECURSIVE FirstCommaSegment(_)
FirstCommaSegment(s) ==
  IF s = <<>> \/ Head(s) = "," THEN <<>>
  ELSE <<Head(s)>> \o FirstCommaSegment(Tail(s))

\* astype(str) of a cell: a missing value becomes the text "nan".
AsTypeStr(v) == IF v = NULL THEN <<"n", "a", "n">> ELSE v

\* ----------------------------------------------------- the program's tables

\* A table maps the text, as a string, to the replacement text.

\* _rename_columns: raw survey header -> short column name
rename_map ==
  "Timestamp" :> "Timestamp" @@
  "How old are you?" :> "Age" @@
  "What industry do you work in?" :> "Industry" @@
  "Job title" :> "Job_Title" @@
  "If your job title needs additional context, please clarify here:" :> "Job_Context" @@
  "What is your annual salary? (You'll indicate the currency in a later question. If you are part-time or hourly, please enter an annualized equivalent -- what you would earn if you worked the job 40 hours a week, 52 weeks a year.)" :> "Annual_Salary" @@
  "How much additional monetary compensation do you get, if any (for example, bonuses or overtime in an average year)? Please only include monetary compensation here, not the value of benefits." :> "Additional_Comp" @@
  "Please indicate the currency" :> "Currency" @@
  "If \"Other,\" please indicate the currency here: " :> "Currency_Other" @@
  "If your income needs additional context, please provide it here:" :> "Income_Context" @@
  "What country do you work in?" :> "Country" @@
  "If you're in the U.S., what state do you work in?" :> "State" @@
  "What city do you work in?" :> "City" @@
  "How many years of professional work experience do you have overall?" :> "Experience_Overall" @@
  "How many years of professional work experience do you have in your field?" :> "Experience" @@
  "What is your highest level of education completed?" :> "Education" @@
  "What is your gender?" :> "Gender" @@
  "What is your race? (Choose all that apply.)" :> "Race" @@
  "Seniority" :> "Seniority"

\* _normalize_job_titles: matched keyword -> seniority label
seniority_map ==
  "sr" :> <<"S", "e", "n", "i", "o", "r">> @@
  "senior" :> <<"S", "e", "n", "i", "o", "r">> @@
  "lead" :> <<"L", "e", "a", "d">> @@
  "principal" :> <<"P", "r", "i", "n", "c", "i", "p", "a", "l">> @@
  "chief" :> <<"E", "x", "e", "c", "u", "t", "i", "v", "e">> @@
  "director" :> <<"E", "x", "e", "c", "u", "t", "i", "v", "e">> @@
  "manager" :> <<"M", "a", "n", "a", "g", "e", "r">> @@
  "assistant" :> <<"A", "s", "s", "i", "s", "t", "a", "n", "t">> @@
  "associate" :> <<"A", "s", "s", "o", "c", "i", "a", "t", "e">> @@
  "head" :> <<"E", "x", "e", "c", "u", "t", "i", "v", "e">> @@
  "coordinator" :> <<"C", "o", "o", "r", "d", "i", "n", "a", "t", "o", "r">> @@
  "jr" :> <<"J", "u", "n", "i", "o", "r">> @@
  "junior" :> <<"J", "u", "n", "i", "o", "r">> @@
  "i" :> <<"L", "e", "v", "e", "l", " ", "I">> @@
  "ii" :> <<"L", "e", "v", "e", "l", " ", "I", "I">> @@
  "iii" :> <<"L", "e", "v", "e", "l", " ", "I", "I", "I">> @@
  "iv" :> <<"L", "e", "v", "e", "l", " ", "I", "V">> @@
  "v" :> <<"L", "e", "v", "e", "l", " ", "V">>

\* _standardize_currency_other_cols: cleaned currency text -> code
replace_map ==
  "US DOLLAR" :> <<"U", "S", "D">> @@
  "AMERICAN DOLLARS" :> <<"U", "S", "D">> @@
  "USD" :> <<"U", "S", "D">> @@
  "BR" :> <<"B", "R", "L">> @@
  "BRL" :> <<"B", "R", "L">> @@
  "BRL R" :> <<"B", "R", "L">> @@
  "INDIAN RUPEES" :> <<"I", "N", "R">> @@
  "RUPEES" :> <<"I", "N", "R">> @@
  "INR INDIAN RUPEE" :> <<"I", "N", "R">> @@
  "RMB" :> <<"C", "N", "Y">> @@
  "CHINA RMB" :> <<"C", "N", "Y">> @@
  "RMB CHINESE YUAN" :> <<"C", "N", "Y">> @@
  "EURO" :> <<"E", "U", "R">> @@
  "DANISH KRONER" :> <<"D", "K", "K">> @@
  "NORWEGIAN KRONER" :> <<"N", "O", "K">> @@
  "POLISH ZLOTY" :> <<"P", "L", "N">> @@
  "POLISH ZWOTY" :> <<"P", "L", "N">> @@
  "PLN ZWOTY" :> <<"P", "L", "N">> @@
  "KOREAN WON" :> <<"K", "R", "W">> @@
  "KRW KOREAN WON" :> <<"K", "R", "W">> @@
  "NEW ISRAELI SHEKEL" :> <<"I", "L", "S">> @@
  "NIS" :> <<"I", "L", "S">> @@
  "NIS NEW ISRAELI SHEKEL" :> <<"I", "L", "S">> @@
  "ILS SHEKEL" :> <<"I", "L", "S">> @@
  "ISRAELI SHEKELS" :> <<"I", "L", "S">> @@
  "ARGENTINIAN PESO" :> <<"A", "R", "S">> @@
  "ARGENTINE PESO" :> <<"A", "R", "S">> @@
  "PESO ARGENTINO" :> <<"A", "R", "S">> @@
  "MEXICAN PESOS" :> <<"M", "X", "N">> @@
  "PESOS COLOMBIANOS" :> <<"C", "O", "P">> @@
  "PHILIPPINE PESO" :> <<"P", "H", "P">> @@
  "PHILIPPINE PESOS" :> <<"P", "H", "P">> @@
  "PHP PHILIPPINE PESO" :> <<"P", "H", "P">> @@
  "AUD AUSTRALIAN" :> <<"A", "U", "D">> @@
  "AUSTRALIAN DOLLARS" :> <<"A", "U", "D">> @@
  "AUD NZD" :> <<"A", "U", "D", "/", "N", "Z", "D">> @@
  "SINGAPORE DOLLARA" :> <<"S", "G", "D">> @@
  "THAI BAHT" :> <<"T", "H", "B">> @@
  "THAI  BAHT" :> <<"T", "H", "B">> @@
  "MYR" :> <<"M", "Y", "R">> @@
  "RM" :> <<"M", "Y", "R">> @@
  "EQUITY" :> <<"E", "Q", "U", "I", "T", "Y">> @@
  "0" :> NULL

\* _standardize_country: normalized country text -> canonical name
country_map ==
  "us" :> <<"U", "n", "i", "t", "e", "d", " ", "S", "t", "a", "t", "e", "s">> @@
  "usa" :> <<"U", "n", "i", "t", "e", "d", " ", "S", "t", "a", "t", "e", "s">> @@
  "u s" :> <<"U", "n", "i", "t", "e", "d", " ", "S", "t", "a", "t", "e", "s">> @@
  "u s a" :> <<"U", "n", "i", "t", "e", "d", " ", "S", "t", "a", "t", "e", "s">> @@
  "united states" :> <<"U", "n", "i", "t", "e", "d", " ", "S", "t", "a", "t", "e", "s">> @@
  "united state" :> <<"U", "n", "i", "t", "e", "d", " ", "S", "t", "a", "t", "e", "s">> @@
  "america" :> <<"U", "n", "i", "t", "e", "d", " ", "S", "t", "a", "t", "e", "s">> @@
  "the united states" :> <<"U", "n", "i", "t", "e", "d", " ", "S", "t", "a", "t", "e", "s">> @@
  "uk" :> <<"U", "n", "i", "t", "e", "d", " ", "K", "i", "n", "g", "d", "o", "m">> @@
  "u k" :> <<"U", "n", "i", "t", "e", "d", " ", "K", "i", "n", "g", "d", "o", "m">> @@
  "united kingdom" :> <<"U", "n", "i", "t", "e", "d", " ", "K", "i", "n", "g", "d", "o", "m">> @@
  "england" :> <<"U", "n", "i", "t", "e", "d", " ", "K", "i", "n", "g", "d", "o", "m">> @@
  "great britain" :> <<"U", "n", "i", "t", "e", "d", " ", "K", "i", "n", "g", "d", "o", "m">> @@
  "britain" :> <<"U", "n", "i", "t", "e", "d", " ", "K", "i", "n", "g", "d", "o", "m">> @@
  "scotland" :> <<"U", "n", "i", "t", "e", "d", " ", "K", "i", "n", "g", "d", "o", "m">> @@
  "wales" :> <<"U", "n", "i", "t", "e", "d", " ", "K", "i", "n", "g", "d", "o", "m">> @@
  "canada" :> <<"C", "a", "n", "a", "d", "a">> @@
  "australia" :> <<"A", "u", "s", "t", "r", "a", "l", "i", "a">> @@
  "new zealand" :> <<"N", "e", "w", " ", "Z", "e", "a", "l", "a", "n", "d">> @@
  "mexico" :> <<"M", "e", "x", "i", "c", "o">> @@
  "france" :> <<"F", "r", "a", "n", "c", "e">> @@
  "germany" :> <<"G", "e", "r", "m", "a", "n", "y">> @@
  "netherlands" :> <<"N", "e", "t", "h", "e", "r", "l", "a", "n", "d", "s">> @@
  "india" :> <<"I", "n", "d", "i", "a">> @@
  "japan" :> <<"J", "a", "p", "a", "n">> @@
  "global" :> <<"G", "l", "o", "b", "a", "l">> @@
  "worldwide" :> <<"G", "l", "o", "b", "a", "l">> @@
  "california" :> <<"U", "n", "i", "t", "e", "d", " ", "S", "t", "a", "t", "e", "s">> @@
  "europe" :> <<"E", "u", "r", "o", "p", "e">> @@
  "africa" :> <<"A", "f", "r", "i", "c", "a">>

\* _standardize_gender
gender_map ==
  "Man" :> <<"M", "a", "l", "e">> @@
  "Woman" :> <<"F", "e", "m", "a", "l", "e">> @@
  "Non-binary" :> <<"N", "o", "n", "-", "B", "i", "n", "a", "r", "y">> @@
  "Other or prefer not to answer" :> <<"P", "r", "e", "f", "e", "r", " ", "n", "o", "t", " ", "t", "o", " ", "s", "a", "y">> @@
  "Prefer not to answer" :> <<"P", "r", "e", "f", "e", "r", " ", "n", "o", "t", " ", "t", "o", " ", "s", "a", "y">> @@
  "0" :> <<"P", "r", "e", "f", "e", "r", " ", "n", "o", "t", " ", "t", "o", " ", "s", "a", "y">>

\* _standardize_race
race_map ==
  "Another option not listed here or prefer not to answer" :> <<"O", "t", "h", "e", "r">> @@
  "0" :> <<"O", "t", "h", "e", "r">>

\* _standardize_education
education_map ==
  "Master's degree" :> <<"M", "a", "s", "t", "e", "r", "'", "s", " ", "D", "e", "g", "r", "e", "e">> @@
  "College degree" :> <<"C", "o", "l", "l", "e", "g", "e", " ", "D", "e", "g", "r", "e", "e">> @@
  "Some college" :> <<"S", "o", "m", "e", " ", "C", "o", "l", "l", "e", "g", "e">> @@
  "Professional degree (MD, JD, etc.)" :> <<"P", "r", "o", "f", "e", "s", "s", "i", "o", "n", "a", "l", " ", "D", "e", "g", "r", "e", "e">>

\* _standardize_experience
experience_map ==
  "1 year or less" :> <<"0", "-", "1", " ", "y", "e", "a", "r", "s">> @@
  "2 - 4 years" :> <<"2", "-", "4", " ", "y", "e", "a", "r", "s">> @@
  "5-7 years" :> <<"5", "-", "7", " ", "y", "e", "a", "r", "s">> @@
  "8 - 10 years" :> <<"8", "-", "1", "0", " ", "y", "e", "a", "r", "s">> @@
  "11 - 20 years" :> <<"1", "1", "-", "2", "0", " ", "y", "e", "a", "r", "s">> @@
  "21 - 30 years" :> <<"2", "1", "-", "3", "0", " ", "y", "e", "a", "r", "s">> @@
  "30 - 40 years" :> <<"3", "0", "-", "4", "0", " ", "y", "e", "a", "r", "s">> @@
  "41 years or more" :> <<"4", "1", "+", " ", "y", "e", "a", "r", "s">>

\* Mutant of overall_experience_map: the table of the Experience column.
OverallSameAsField == experience_map

\* _standardize_overall_experience
overall_experience_map ==
  "1 year or less" :> <<"0", "-", "1", " ", "y", "e", "a", "r", "s">> @@
  "2 - 4 years" :> <<"2", "-", "4", " ", "y", "e", "a", "r", "s">> @@
  "5-7 years" :> <<"5", "-", "7", " ", "y", "e", "a", "r", "s">> @@
  "8 - 10 years" :> <<"8", "-", "1", "0", " ", "y", "e", "a", "r", "s">> @@
  "11 - 20 years" :> <<"1", "1", "-", "2", "0", " ", "y", "e", "a", "r", "s">> @@
  "21 - 30 years" :> <<"2", "1", "-", "3", "0", " ", "y", "e", "a", "r", "s">> @@
  "31 - 40 years" :> <<"3", "0", "-", "4", "0", " ", "y", "e", "a", "r", "s">> @@
  "41 years or more" :> <<"4", "1", "+", " ", "y", "e", "a", "r", "s">>

\* _standardize_state: texts replaced by None
state_null_values == {"0", "nan", "NaN", "None", "", "null"}

\* _standardize_city: the denylist of non-city answers
invalid_entries == {"n/a", "na", "none", "no answer", "prefer not to answer", "undisclosed", "test", "remote", "work remotely", "telecommute", "virtual worker", "home worker", "student", "small city", "stay", "unknown", "remove", "dhgbfv", "pubw", "ff", "s"}

\* _standardize_city: texts replaced by None
city_null_values == {"", "nan", "None", "NaN"}

Replace(map, v) == IF IsText(v) /\ Join(v) \in DOMAIN map THEN map[Join(v)] ELSE v

\* ------------------------------------------------------------- DataFrames
\* A DataFrame: its column labels in order, its index labels in order, and
\* one row per index label, a function from the column labels to cells.
Range(s) == { s[i] : i \in DOMAIN s }

\* pd.DataFrame()
EmptyFrame == [cols |-> <<>>, index |-> <<>>, rows |-> <<>>]

\* Mutant of IsEmpty: a frame counts as empty only when both axes are empty.
IsEmptyBothAxes(t) == Len(t.cols) = 0 /\ Len(t.index) = 0

\* df.empty: some axis has length 0
IsEmpty(t) == Len(t.cols) = 0 \/ Len(t.index) = 0

HasCol(t, c) == c \in Range(t.cols)

\* The rows of a frame, as a set.
RowsOf(t) == { t.rows[i] : i \in DOMAIN t.rows }

\* df[c] = values: an existing column is overwritten in place, a new one is
\* appended as the last column.  f gives the new cell from the old row.
SetCol(t, c, f) ==
  [ cols  |-> IF HasCol(t, c) THEN t.cols ELSE Append(t.cols, c),
    index |-> t.index,
    rows  |-> [ i \in DOMAIN t.rows |->
                  [ k \in Range(t.cols) \cup {c} |->
                      IF k = c THEN f[t.rows[i]] ELSE t.rows[i][k] ] ] ]

\* df.drop(columns=[c]) of a frame that has column c: a new frame without it
DropCol(t, c) ==
  [ cols  |-> SelectSeq(t.cols, LAMBDA k : k # c),
    index |-> t.index,
    rows  |-> [ i \in DOMAIN t.rows |-> [ k \in Range(t.cols) \ {c} |-> t.rows[i][k] ] ] ]

\* Mutant of SelectCols: the projection keeps every column, in the frame's order.
SelectColsKeepAll(t, cs) == t

\* df[[c1, ..., cn]] of a frame that has these columns
SelectCols(t, cs) ==
  [ cols  |-> cs,
    index |-> t.index,
    rows  |-> [ i \in DOMAIN t.rows |-> [ k \in Range(cs) |-> t.rows[i][k] ] ] ]

\* What a cleaning step leaves behind: res is the frame it returns, obj the
\* state in which it leaves the frame object it was given, and same tells
\* whether it returned that object (a step that fails returns a new, empty
\* frame; the mutations it made before failing stay in the object).
StepResult(res, obj, same) == [res |-> res, obj |-> obj, same |-> same]
InPlace(t) == StepResult(t, t, TRUE)
\* Mutant of Raised: the except clause returns the frame instead of a new
\* empty one.
RaisedReturnsFrame(obj) == StepResult(obj, obj, TRUE)
Raised(obj) == StepResult(EmptyFrame, obj, FALSE)

\* ------------------------------------------------------------ the steps
\* df.rename(columns=rename_map, inplace=True)
RenameLabel(c) == IF c \in DOMAIN rename_map THEN rename_map[c] ELSE c

_rename_columns(t) ==
  InPlace(
    [ cols  |-> [ i \in DOMAIN t.cols |-> RenameLabel(t.cols[i]) ],
      index |-> t.index,
      rows  |-> [ i \in DOMAIN t.rows |->
                    [ k \in { RenameLabel(c) : c \in Range(t.cols) } |->
                        t.rows[i][CHOOSE c \in Range(t.cols) : RenameLabel(c) = k] ] ] ])

\* .str.lower().str.replace(r'[^\w\s]', '').str.replace(r'\s+', ' ').str.strip()
NormalizeTitle(v) ==
  IF v = NULL THEN NULL ELSE Strip(CollapseSpaces(DeletePunctuation(Lower(v))))

\* The alternatives of the seniority pattern, in the order the regex engine
\* tries them at one position; i{1,3} is greedy: iii, then ii, then i.
SeniorityAlternatives ==
  << "sr", "senior", "lead", "principal", "jr", "junior", "chief", "director",
     "manager", "assistant", "associate", "head", "coordinator",
     "iii", "ii", "i", "iv", "v" >>

\* \b between s[p-1] and s[p]
WordBoundary(s, p) ==
  ((p - 1) \in DOMAIN s /\ IsWord(s[p - 1])) # (p \in DOMAIN s /\ IsWord(s[p]))

\* The alternative matches at position p, between two word boundaries.
MatchesAt(s, p, alt) ==
  /\ p + Len(alt) - 1 <= Len(s)
  /\ Join(SubSeq(s, p, p + Len(alt) - 1)) = alt
  /\ WordBoundary(s, p)
  /\ WordBoundary(s, p + Len(alt))

\* str.findall(pattern).str[0]: the first match, scanning left to right, or
\* "" when the pattern matches nowhere.
FirstMatch(s) ==
  IF \E p \in DOMAIN s : \E a \in DOMAIN SeniorityAlternatives :
       MatchesAt(s, p, SeniorityAlternatives[a])
  THEN LET p == CHOOSE q \in DOMAIN s :
                  /\ \E a \in DOMAIN SeniorityAlternatives : MatchesAt(s, q, SeniorityAlternatives[a])
                  /\ \A r \in 1..(q - 1) :
                       \A a \in DOMAIN SeniorityAlternatives : ~MatchesAt(s, r, SeniorityAlternatives[a])
            a == CHOOSE b \in DOMAIN SeniorityAlternatives :
                  /\ MatchesAt(s, p, SeniorityAlternatives[b])
                  /\ \A c \in 1..(b - 1) : ~MatchesAt(s, p, SeniorityAlternatives[c])
       IN SeniorityAlternatives[a]
  ELSE ""

\* .str.slice(0, 100)
MaxSeniorityLen == 100
Slice(s) == IF Len(s) > MaxSeniorityLen THEN SubSeq(s, 1, MaxSeniorityLen) ELSE s

\* The Seniority cell of a row whose Job_Title is already normalized.
SeniorityOf(title) ==
  IF title = NULL \/ FirstMatch(title) = "" THEN NULL
  ELSE Slice(seniority_map[FirstMatch(title)])

\* .str.findall(pattern).str[0] yields a float64 column when no title matches
\* and some title is text (pandas converts the all-NaN result); .str.lower()
\* on that column raises AttributeError, after Job_Title and Seniority have
\* been assigned.
SeniorityIsFloat(t) ==
  /\ \E i \in DOMAIN t.rows : IsText(t.rows[i]["Job_Title"])
  /\ \A i \in DOMAIN t.rows : SeniorityOf(t.rows[i]["Job_Title"]) = NULL

_normalize_job_titles(t) ==
  IF ~HasCol(t, "Job_Title") THEN Raised(t)
  ELSE LET titled == SetCol(t, "Job_Title", [r \in RowsOf(t) |-> NormalizeTitle(r["Job_Title"])])
       IN IF SeniorityIsFloat(titled)
          THEN Raised(SetCol(titled, "Seniority", [r \in RowsOf(titled) |-> NULL]))
          ELSE InPlace(SetCol(titled, "Seniority", [r \in RowsOf(titled) |-> SeniorityOf(r["Job_Title"])]))

\* .str.replace(r'[^0-9.]', '').replace(r'\s+', ' ', regex=True)
_standardize_annual_salaries(t) ==
  IF ~HasCol(t, "Annual_Salary") THEN Raised(t)
  ELSE InPlace(SetCol(t, "Annual_Salary", [r \in RowsOf(t) |->
         IF r["Annual_Salary"] = NULL THEN NULL
         ELSE CollapseSpaces(KeepDigitsAndDot(r["Annual_Salary"]))]))

\* Series.replace('', None)
EmptyToNone(v) == IF v = <<>> THEN NULL ELSE v

\* .astype(str).str.replace(r'[^0-9.]', '').replace(r'\s+', ' ').replace('', None)
_standardize_additional_comp(t) ==
  IF ~HasCol(t, "Additional_Comp") THEN Raised(t)
  ELSE InPlace(SetCol(t, "Additional_Comp", [r \in RowsOf(t) |->
         EmptyToNone(CollapseSpaces(KeepDigitsAndDot(AsTypeStr(r["Additional_Comp"]))))]))

\* .str.contains(sub): sub occurs somewhere in s
Contains(s, sub) ==
  \E p \in 1..(Len(s) - Len(sub) + 1) : Join(SubSeq(s, p, p + Len(sub) - 1)) = sub

\* Mutant of MergeOther: the test for "other" is case-sensitive.
MergeOtherCaseSensitive(r) ==
  IF IsText(r["Currency"]) /\ Contains(r["Currency"], "other")
  THEN r["Currency_Other"] ELSE r["Currency"]

\* df['Currency'].where(~df['Currency'].str.lower().str.contains('other', na=False),
\*                      df['Currency_Other'])
MergeOther(r) ==
  IF IsText(r["Currency"]) /\ Contains(Lower(r["Currency"]), "other")
  THEN r["Currency_Other"] ELSE r["Currency"]

\* re.sub(r'\(.*?\)', '', s): from each "(" to the nearest ")" after it, on
\* the same line.
RECURSIVE RemoveParenthesized(_)
RemoveParenthesized(s) ==
  IF s = <<>> THEN <<>>
  ELSE IF /\ Head(s) = "("
          /\ \E j \in 2..Len(s) : s[j] = ")" /\ \A k \in 2..(j - 1) : Ord(s[k]) # 10
       THEN LET j == CHOOSE j \in 2..Len(s) :
                       s[j] = ")" /\ \A k \in 2..(j - 1) : s[k] # ")"
            IN RemoveParenthesized(SubSeq(s, j + 1, Len(s)))
       ELSE <<Head(s)>> \o RemoveParenthesized(Tail(s))

\* re.sub(r'[^A-Z/]', ' ', s)
BlankNonCurrencyChars(s) ==
  [ i \in DOMAIN s |-> IF Ord(s[i]) \in 65..90 \/ s[i] = "/" THEN s[i] ELSE " " ]

CleanCurrency(v) ==
  IF v = NULL THEN NULL
  ELSE Strip(CollapseSpaces(BlankNonCurrencyChars(RemoveParenthesized(Upper(v)))))

\* The two assignments to df['Currency'] (in place), then
\* df = df.drop(columns=['Currency_Other']), a new frame.
_standardize_currency_other_cols(t) ==
  IF ~HasCol(t, "Currency") \/ ~HasCol(t, "Currency_Other") THEN Raised(t)
  ELSE LET assigned == SetCol(t, "Currency", [r \in RowsOf(t) |->
                         Replace(replace_map, CleanCurrency(MergeOther(r)))])
       IN StepResult(DropCol(assigned, "Currency_Other"), assigned, FALSE)

\* ---- pd.to_datetime(errors="coerce", utc=True), .dt.strftime("%Y-%m-%d %H:%M:%S")
\* Two layouts are modelled: the survey export's month/day/year
\* hour:minute:second and the step's own output layout.  Any other text
\* counts as unparseable (NaT), which strftime renders as a missing value.
Shape(s) == Join([ i \in DOMAIN s |-> IF IsDigit(s[i]) THEN "9" ELSE s[i] ])

SurveyShapes ==
  { m \o "/" \o d \o "/9999 " \o h \o ":99:99" : m \in {"9", "99"}, d \in {"9", "99"}, h \in {"9", "99"} }
IsoShape == "9999-99-99 99:99:99"

\* The numbers of a text, one per maximal run of digits.
RECURSIVE DigitRun(_)
DigitRun(s) == IF s = <<>> \/ ~IsDigit(Head(s)) THEN <<>> ELSE <<Head(s)>> \o DigitRun(Tail(s))
RECURSIVE ToInt(_)
ToInt(ds) == IF ds = <<>> THEN 0 ELSE 10 * ToInt(SubSeq(ds, 1, Len(ds) - 1)) + (Ord(ds[Len(ds)]) - 48)
RECURSIVE Numbers(_)
Numbers(s) ==
  IF s = <<>> THEN <<>>
  ELSE IF ~IsDigit(Head(s)) THEN Numbers(Tail(s))
  ELSE LET run == DigitRun(s) IN <<ToInt(run)>> \o Numbers(SubSeq(s, Len(run) + 1, Len(s)))

\* %0wd
RECURSIVE Pad(_, _)
Pad(n, w) == IF w = 0 THEN <<>> ELSE Pad(n \div 10, w - 1) \o <<Chr(48 + (n % 10))>>

DaysIn(month, year) ==
  IF month \in {4, 6, 9, 11} THEN 30
  ELSE IF month # 2 THEN 31
  ELSE IF (year % 4 = 0 /\ year % 100 # 0) \/ year % 400 = 0 THEN 29 ELSE 28

FormatTimestamp(v) ==
  IF v = NULL THEN NULL
  ELSE LET n == Numbers(v)
           ymdhms == IF Shape(v) = IsoShape THEN n
                     ELSE IF Shape(v) \in SurveyShapes THEN <<n[3], n[1], n[2], n[4], n[5], n[6]>>
                     ELSE <<>>
       IN IF /\ ymdhms # <<>>
             /\ ymdhms[1] \in 1678..2261
             /\ ymdhms[2] \in 1..12
             /\ ymdhms[3] \in 1..DaysIn(ymdhms[2], ymdhms[1])
             /\ ymdhms[4] \in 0..23 /\ ymdhms[5] \in 0..59 /\ ymdhms[6] \in 0..59
          THEN Pad(ymdhms[1], 4) \o <<"-">> \o Pad(ymdhms[2], 2) \o <<"-">> \o Pad(ymdhms[3], 2)
               \o <<" ">> \o Pad(ymdhms[4], 2) \o <<":">> \o Pad(ymdhms[5], 2) \o <<":">> \o Pad(ymdhms[6], 2)
          ELSE NULL

_change_time_format(t) ==
  IF ~HasCol(t, "Timestamp") THEN Raised(t)
  ELSE InPlace(SetCol(t, "Timestamp", [r \in RowsOf(t) |-> FormatTimestamp(r["Timestamp"])]))

\* .fillna('').str.lower().str.strip().str.replace(r'\s+', ' ').replace('', None)
_standardize_income_context(t) ==
  IF ~HasCol(t, "Income_Context") THEN Raised(t)
  ELSE InPlace(SetCol(t, "Income_Context", [r \in RowsOf(t) |->
         EmptyToNone(CollapseSpaces(Strip(Lower(
           IF r["Income_Context"] = NULL THEN <<>> ELSE r["Income_Context"]))))]))

\* re.sub(r'[^a-z\s]', '', s)
IsAsciiLowerOrSpace(c) == Ord(c) \in 97..122 \/ IsSpace(c)

\* Mutant of NormalizeCountry: no character is deleted.
NormalizeCountryKeepAll(v) == CollapseSpaces(Lower(v))

\* .str.lower().str.replace(r'[^a-z\s]', '').str.replace(r"\s+", " "), then
\* .str.lower().map(country_map).where(lambda x: x.notna(), None)
NormalizeCountry(v) == CollapseSpaces(SelectSeq(Lower(v), IsAsciiLowerOrSpace))

_standardize_country(t) ==
  IF ~HasCol(t, "Country") THEN Raised(t)
  ELSE InPlace(SetCol(t, "Country", [r \in RowsOf(t) |->
         IF r["Country"] = NULL THEN NULL
         ELSE LET key == Join(Lower(NormalizeCountry(r["Country"])))
              IN IF key \in DOMAIN country_map THEN country_map[key] ELSE NULL]))

\* df['Job_Context'].where(df['Job_Context'].notna(), None)
_standardize_job_context(t) ==
  IF ~HasCol(t, "Job_Context") THEN Raised(t)
  ELSE InPlace(SetCol(t, "Job_Context", [r \in RowsOf(t) |->
         IF IsText(r["Job_Context"]) THEN r["Job_Context"] ELSE NULL]))

\* Series.replace(r'^\s*$', pd.NA, regex=True)
BlankToNA(v) == IF IsText(v) /\ IsBlank(v) THEN NULL ELSE v

\* Mutant of FillNA: the missing cells are not filled.
FillNASkipped(v, text) == v

\* Series.fillna(text)
FillNA(v, text) == IF v = NULL THEN text ELSE v

PreferNotToSay ==
  <<"P", "r", "e", "f", "e", "r", " ", "n", "o", "t", " ", "t", "o", " ", "s", "a", "y">>
Other == <<"O", "t", "h", "e", "r">>
ZeroToOneYears == <<"0", "-", "1", " ", "y", "e", "a", "r", "s">>

_standardize_gender(t) ==
  IF ~HasCol(t, "Gender") THEN Raised(t)
  ELSE InPlace(SetCol(t, "Gender", [r \in RowsOf(t) |->
         FillNA(Replace(gender_map, BlankToNA(r["Gender"])), PreferNotToSay)]))

_standardize_race(t) ==
  IF ~HasCol(t, "Race") THEN Raised(t)
  ELSE InPlace(SetCol(t, "Race", [r \in RowsOf(t) |->
         LET replaced == Replace(race_map, BlankToNA(r["Race"]))
         IN FillNA(IF replaced = NULL THEN NULL ELSE Title(replaced), Other)]))

_standardize_education(t) ==
  IF ~HasCol(t, "Education") THEN Raised(t)
  ELSE InPlace(SetCol(t, "Education", [r \in RowsOf(t) |->
         FillNA(Replace(education_map, BlankToNA(r["Education"])), PreferNotToSay)]))

StripText(v) == IF v = NULL THEN NULL ELSE Strip(v)

_standardize_experience(t) ==
  IF ~HasCol(t, "Experience") THEN Raised(t)
  ELSE InPlace(SetCol(t, "Experience", [r \in RowsOf(t) |->
         FillNA(Replace(experience_map, StripText(BlankToNA(r["Experience"]))), ZeroToOneYears)]))

_standardize_overall_experience(t) ==
  IF ~HasCol(t, "Experience_Overall") THEN Raised(t)
  ELSE InPlace(SetCol(t, "Experience_Overall", [r \in RowsOf(t) |->
         FillNA(Replace(overall_experience_map, StripText(BlankToNA(r["Experience_Overall"]))),
                ZeroToOneYears)]))

\* .astype(str).str.split(',').str[0].str.strip().replace([...], None)
_standardize_state(t) ==
  IF ~HasCol(t, "State") THEN Raised(t)
  ELSE InPlace(SetCol(t, "State", [r \in RowsOf(t) |->
         LET first == Strip(FirstCommaSegment(AsTypeStr(r["State"])))
         IN IF Join(first) \in state_null_values THEN NULL ELSE first]))

\* s.encode('latin1', errors='ignore'): the characters above U+00FF are
\* dropped, every other character is the byte of its code point.
Latin1Encode(s) ==
  LET kept == SelectSeq(s, LAMBDA c : Ord(c) < 256) IN [ i \in DOMAIN kept |-> Ord(kept[i]) ]

IsContinuation(bs, i) == i \in DOMAIN bs /\ bs[i] \in 128..191

\* b.decode('utf-8', errors='ignore'), as code points: a byte below 0x80 is
\* itself; a lead byte with its continuation bytes is the encoded code point;
\* an invalid start byte, or a lead byte with the valid continuation bytes
\* that follow an incomplete sequence, is dropped.
RECURSIVE Utf8Decode(_)
Utf8Decode(bs) ==
  IF bs = <<>> THEN <<>>
  ELSE LET b == bs[1]
           rest(n) == Utf8Decode(SubSeq(bs, n + 1, Len(bs)))
           \* the second byte of a 3- or 4-byte sequence has a narrower range
           \* after the lead bytes E0, ED, F0 and F4
           second == /\ IsContinuation(bs, 2)
                     /\ (b = 224 => bs[2] >= 160) /\ (b = 237 => bs[2] <= 159)
                     /\ (b = 240 => bs[2] >= 144) /\ (b = 244 => bs[2] <= 143)
       IN IF b < 128 THEN <<b>> \o rest(1)
          ELSE IF b \in 194..223
               THEN IF IsContinuation(bs, 2)
                    THEN <<(b - 192) * 64 + (bs[2] - 128)>> \o rest(2)
                    ELSE rest(1)
          ELSE IF b \in 224..239
               THEN IF ~second THEN rest(1)
                    ELSE IF ~IsContinuation(bs, 3) THEN rest(2)
                    ELSE <<(b - 224) * 4096 + (bs[2] - 128) * 64 + (bs[3] - 128)>> \o rest(3)
          ELSE IF b \in 240..244
               THEN IF ~second THEN rest(1)
                    ELSE IF ~IsContinuation(bs, 3) THEN rest(2)
                    ELSE IF ~IsContinuation(bs, 4) THEN rest(3)
                    ELSE <<(b - 240) * 262144 + (bs[2] - 128) * 4096
                             + (bs[3] - 128) * 64 + (bs[4] - 128)>> \o rest(4)
          ELSE rest(1)

\* .str.encode('latin1', errors='ignore').str.decode('utf-8', errors='ignore')
Reencode(s) == LET cps == Utf8Decode(Latin1Encode(s)) IN [ i \in DOMAIN cps |-> Chr(cps[i]) ]

\* None if isinstance(x, str) and x.lower().strip() in invalid_entries else x
DropInvalidCity(v) ==
  IF IsText(v) /\ Join(Strip(Lower(v))) \in invalid_entries THEN NULL ELSE v

_standardize_city(t) ==
  IF ~HasCol(t, "City") THEN Raised(t)
  ELSE InPlace(SetCol(t, "City", [r \in RowsOf(t) |->
         LET cleaned == CollapseSpaces(Strip(Reencode(AsTypeStr(r["City"]))))
             kept == DropInvalidCity(IF Join(cleaned) \in city_null_values THEN NULL ELSE cleaned)
         IN IF kept = NULL THEN NULL ELSE Strip(Title(kept))]))

\* Mutant of FinalCleaning: only the empty text is replaced, not the
\* whitespace-only ones.
FinalCleaningEmptyOnly(t) ==
  [ cols  |-> t.cols,
    index |-> t.index,
    rows  |-> [ i \in DOMAIN t.rows |-> [ k \in Range(t.cols) |-> EmptyToNone(t.rows[i][k]) ] ] ]

\* df.replace(r'^\s*$', None, regex=True); df.map(lambda x: None if pd.isna(x) else x)
FinalCleaning(t) ==
  [ cols  |-> t.cols,
    index |-> t.index,
    rows  |-> [ i \in DOMAIN t.rows |-> [ k \in Range(t.cols) |-> BlankToNA(t.rows[i][k]) ] ] ]

\* df[col].astype("string") for every object column: a text cell stays that
\* text, a missing cell is pd.NA.
dtype_conversion(t) ==
  [ cols  |-> t.cols,
    index |-> t.index,
    rows  |-> [ i \in DOMAIN t.rows |->
                  [ k \in Range(t.cols) |-> IF IsText(t.rows[i][k]) THEN t.rows[i][k] ELSE NULL ] ] ]

\* The column list of the projection df[[...]].
OutputColumns ==
  << "Timestamp", "Age", "Gender", "Race", "Education",
     "Industry", "Job_Title", "Seniority", "Job_Context",
     "Experience_Overall", "Experience", "Annual_Salary",
     "Additional_Comp", "Currency", "Country", "State",
     "City", "Income_Context" >>

\* df[[...]] raises KeyError when a listed column is missing.
ProjectionRaises(t) == \E i \in DOMAIN OutputColumns : ~HasCol(t, OutputColumns[i])

\* df.duplicated(keep=False): the row equals another row of the frame
IsDuplicated(t, i) == \E j \in DOMAIN t.rows : j # i /\ t.rows[j] = t.rows[i]

\* Mutant of drop_duplicates: keep=False, no row of a group of equal rows is
\* kept.
drop_duplicates_keep_none(t) ==
  LET keep == SelectSeq([ i \in DOMAIN t.rows |-> i ],
                        LAMBDA i : \A j \in DOMAIN t.rows : j # i => t.rows[j] # t.rows[i])
  IN [ cols  |-> t.cols,
       index |-> [ n \in DOMAIN keep |-> t.index[keep[n]] ],
       rows  |-> [ n \in DOMAIN keep |-> t.rows[keep[n]] ] ]

\* Mutant of drop_duplicates: keep='last'.
drop_duplicates_keep_last(t) ==
  LET keep == SelectSeq([ i \in DOMAIN t.rows |-> i ],
                        LAMBDA i : \A j \in (i + 1)..Len(t.rows) : t.rows[j] # t.rows[i])
  IN [ cols  |-> t.cols,
       index |-> [ n \in DOMAIN keep |-> t.index[keep[n]] ],
       rows  |-> [ n \in DOMAIN keep |-> t.rows[keep[n]] ] ]

\* df.drop_duplicates(): the first of each group of equal rows, a new frame
drop_duplicates(t) ==
  LET keep == SelectSeq([ i \in DOMAIN t.rows |-> i ],
                        LAMBDA i : \A j \in 1..(i - 1) : t.rows[j] # t.rows[i])
  IN [ cols  |-> t.cols,
       index |-> [ n \in DOMAIN keep |-> t.index[keep[n]] ],
       rows  |-> [ n \in DOMAIN keep |-> t.rows[keep[n]] ] ]

\* df.isnull().all(axis=1)
IsNullRow(t, i) == \A k \in Range(t.cols) : t.rows[i][k] = NULL

\* ------------------------------------------------------------- the inputs
\* The cells of a typical survey answer, by short column name.
BaseCell ==
  "Timestamp" :> <<"4", "/", "2", "7", "/", "2", "0", "2", "1", " ", "1", "1", ":", "0", "2", ":", "1", "0">> @@
  "Age" :> <<"2", "5", "-", "3", "4">> @@
  "Industry" :> <<"T", "e", "c", "h">> @@
  "Job_Title" :> <<"S", "r", " ", "D", "e", "v">> @@
  "Job_Context" :> <<"O", "p", "s">> @@
  "Annual_Salary" :> <<"8", "5", "0", "0", "0">> @@
  "Additional_Comp" :> <<"5", "0", "0">> @@
  "Currency" :> <<"U", "S", "D">> @@
  "Currency_Other" :> <<"-">> @@
  "Income_Context" :> <<"B", "a", "s", "e", " ", "p", "a", "y">> @@
  "Country" :> <<"U", "S", "A">> @@
  "State" :> <<"O", "h", "i", "o">> @@
  "City" :> <<"A", "k", "r", "o", "n">> @@
  "Experience_Overall" :> <<"5", "-", "7", " ", "y", "e", "a", "r", "s">> @@
  "Experience" :> <<"2", " ", "-", " ", "4", " ", "y", "e", "a", "r", "s">> @@
  "Education" :> <<"C", "o", "l", "l", "e", "g", "e", " ", "d", "e", "g", "r", "e", "e">> @@
  "Gender" :> <<"W", "o", "m", "a", "n">> @@
  "Race" :> <<"W", "h", "i", "t", "e">>

\* Other raw answers for one column, by short column name.
Pool ==
  "Timestamp" :>
    { NULL,
      <<>>,
      <<"n", "/", "a">>,
      <<"1", "/", "2", "/", "2", "0", "2", "0", " ", "3", ":", "0", "4", ":", "0", "5">>,
      <<"2", "/", "3", "0", "/", "2", "0", "2", "1", " ", "1", ":", "0", "0", ":", "0", "0">> } @@
  "Age" :>
    { NULL,
      <<>>,
      <<" ", "\t">>,
      <<"1", "8", "-", "2", "4">> } @@
  "Industry" :>
    { NULL,
      <<" ", " ">>,
      <<"L", "a", "w">> } @@
  "Job_Title" :>
    { NULL,
      <<"S", "e", "n", "i", "o", "r", " ", "S", "o", "f", "t", "w", "a", "r", "e", " ", "E", "n", "g", "i", "n", "e", "e", "r", "!", "!">>,
      <<"s", "r", " ", "d", "e", "v">>,
      <<"S", "r", ".", " ", "D", "e", "v">>,
      <<"C", "i", "v", "i", "l", " ", "D", "e", "v">>,
      <<"L", "e", "a", "d", " ", "S", "r">>,
      <<"D", "e", "v", " ", "I", "I">>,
      <<"!", "!">> } @@
  "Job_Context" :>
    { NULL,
      <<>>,
      <<" ">>,
      <<"T", "e", "m", "p">> } @@
  "Annual_Salary" :>
    { NULL,
      <<"$", "8", "5", ",", "0", "0", "0">>,
      <<"8", "5", ",", "0", "0", "0", ".", "5", "0">>,
      <<"a", "b", "c">>,
      <<"8", "5", " ", "0", "0", "0">> } @@
  "Additional_Comp" :>
    { NULL,
      <<"$", "1", ",", "0", "0", "0">>,
      <<"n", "o", "n", "e">>,
      <<"5", "0", "0", ".", "0">> } @@
  "Income_Context" :>
    { NULL,
      <<" ">>,
      <<" ", " ", "S", "o", "m", "e", " ", "\t", "T", "E", "X", "T", " ">>,
      <<"b", "a", "s", "e", " ", " ", "p", "a", "y">> } @@
  "Country" :>
    { NULL,
      <<"U", ".", "S", ".", "A", ".">>,
      <<"u", "n", "i", "t", "e", "d", " ", " ", "s", "t", "a", "t", "e", "s">>,
      <<"N", "a", "r", "n", "i", "a">>,
      <<" ", "u", "s", "a">> } @@
  "State" :>
    { NULL,
      <<"C", "a", "l", "i", "f", "o", "r", "n", "i", "a", ",", " ", "U", "S">>,
      <<" ", ",", " ", "T", "X">>,
      <<"n", "u", "l", "l">>,
      <<"0">>,
      <<"o", "h", "i", "o", " ">> } @@
  "City" :>
    { NULL,
      <<"r", "e", "m", "o", "t", "e">>,
      <<" ", "R", "e", "M", "o", "T", "e", " ">>,
      <<"n", "e", "w", " ", " ", "y", "o", "r", "k">>,
      <<"A", "l", "U+00C3", "U+00A9">>,
      <<"A", "l", "U+00E9">>,
      <<"n", "a", "n">>,
      <<"o", "'", "n", "e", "i", "l">> } @@
  "Experience_Overall" :>
    { NULL,
      <<" ">>,
      <<"3", "1", " ", "-", " ", "4", "0", " ", "y", "e", "a", "r", "s">>,
      <<"3", "0", " ", "-", " ", "4", "0", " ", "y", "e", "a", "r", "s">>,
      <<" ", "1", " ", "y", "e", "a", "r", " ", "o", "r", " ", "l", "e", "s", "s", " ">>,
      <<" ", "3", " ", "y", "r", "s", " ">> } @@
  "Experience" :>
    { NULL,
      <<>>,
      <<"3", "1", " ", "-", " ", "4", "0", " ", "y", "e", "a", "r", "s">>,
      <<"3", "0", " ", "-", " ", "4", "0", " ", "y", "e", "a", "r", "s">>,
      <<"4", "1", " ", "y", "e", "a", "r", "s", " ", "o", "r", " ", "m", "o", "r", "e">>,
      <<"1", "0", " ", "y", "e", "a", "r", "s", " ">> } @@
  "Education" :>
    { NULL,
      <<>>,
      <<"M", "a", "s", "t", "e", "r", "'", "s", " ", "d", "e", "g", "r", "e", "e">>,
      <<"P", "h", "D">> } @@
  "Gender" :>
    { NULL,
      <<" ">>,
      <<"M", "a", "n">>,
      <<"0">>,
      <<"N", "o", "n", "-", "b", "i", "n", "a", "r", "y">> } @@
  "Race" :>
    { NULL,
      <<>>,
      <<"0">>,
      <<"a", "s", "i", "a", "n", " ", "o", "r", " ", "a", "s", "i", "a", "n", " ", "a", "m", "e", "r", "i", "c", "a", "n">>,
      <<"A", "n", "o", "t", "h", "e", "r", " ", "o", "p", "t", "i", "o", "n", " ", "n", "o", "t", " ", "l", "i", "s", "t", "e", "d", " ", "h", "e", "r", "e", " ", "o", "r", " ", "p", "r", "e", "f", "e", "r", " ", "n", "o", "t", " ", "t", "o", " ", "a", "n", "s", "w", "e", "r">> }

\* Other raw answers for the pair Currency, Currency_Other.
CurrencyPairs ==
  { <<<<"U", "S", " ", "D", "o", "l", "l", "a", "r">>, NULL>>,
    <<<<"O", "t", "h", "e", "r">>, <<"S", "w", "i", "s", "s", " ", "F", "r", "a", "n", "c", "s">>>>,
    <<<<"o", "t", "h", "e", "r">>, <<"O", "t", "h", "e", "r">>>>,
    <<<<"O", "t", "h", "e", "r">>, NULL>>,
    <<NULL, <<"E", "u", "r", "o">>>>,
    <<<<"A", "n", "o", "t", "h", "e", "r">>, <<"R", "M", "B", " ", "(", "C", "h", "i", "n", "e", "s", "e", " ", "Y", "u", "a", "n", ")">>>>,
    <<<<" ">>, <<"-">>>>,
    <<<<"A", "U", "D", "/", "N", "Z", "D">>, <<"-">>>> }

\* Other raw answers for the pair Experience_Overall, Experience.
ExperiencePairs ==
  { <<<<"3", "1", " ", "-", " ", "4", "0", " ", "y", "e", "a", "r", "s">>, <<"3", "0", " ", "-", " ", "4", "0", " ", "y", "e", "a", "r", "s">>>>,
    <<<<"3", "0", " ", "-", " ", "4", "0", " ", "y", "e", "a", "r", "s">>, <<"3", "1", " ", "-", " ", "4", "0", " ", "y", "e", "a", "r", "s">>>>,
    <<<<"8", " ", "-", " ", "1", "0", " ", "y", "e", "a", "r", "s">>, <<"8", " ", "-", " ", "1", "0", " ", "y", "e", "a", "r", "s">>>> }

\* The raw survey headers, in the order of the survey export: the keys of
\* rename_map other than Seniority.
RawHeaders ==
  << "Timestamp",
     "How old are you?",
     "What industry do you work in?",
     "Job title",
     "If your job title needs additional context, please clarify here:",
     "What is your annual salary? (You'll indicate the currency in a later question. If you are part-time or hourly, please enter an annualized equivalent -- what you would earn if you worked the job 40 hours a week, 52 weeks a year.)",
     "How much additional monetary compensation do you get, if any (for example, bonuses or overtime in an average year)? Please only include monetary compensation here, not the value of benefits.",
     "Please indicate the currency",
     "If \"Other,\" please indicate the currency here: ",
     "If your income needs additional context, please provide it here:",
     "What country do you work in?",
     "If you're in the U.S., what state do you work in?",
     "What city do you work in?",
     "How many years of professional work experience do you have overall?",
     "How many years of professional work experience do you have in your field?",
     "What is your highest level of education completed?",
     "What is your gender?",
     "What is your race? (Choose all that apply.)" >>

\* The raw header that rename_map renames to a short column name.
RawOf(short) == CHOOSE h \in DOMAIN rename_map : rename_map[h] = short

BaseRow == [ h \in Range(RawHeaders) |-> BaseCell[rename_map[h]] ]
NullRow == [ h \in Range(RawHeaders) |-> NULL ]

\* The rows an input table is drawn from: the typical answer, the answer
\* with every cell missing, and the typical answer with one column (or the
\* currency pair, or the pair of experience columns) replaced by another raw
\* answer.
RowGroups ==
  { { [BaseRow EXCEPT ![RawOf(c)] = v] : v \in Pool[c] } : c \in DOMAIN Pool }
  \cup { { [BaseRow EXCEPT ![RawOf("Currency")] = p[1], ![RawOf("Currency_Other")] = p[2]]
           : p \in CurrencyPairs },
         { [BaseRow EXCEPT ![RawOf("Experience_Overall")] = p[1], ![RawOf("Experience")] = p[2]]
           : p \in ExperiencePairs } }

\* An answer whose job title holds no seniority keyword.
PlainTitleRow == [BaseRow EXCEPT ![RawOf("Job_Title")] = <<"D", "e", "v">>]

\* pd.DataFrame(rows, columns=cols): the index is 0 .. n-1
Frame(cols, rows) ==
  [ cols |-> cols, index |-> [ i \in DOMAIN rows |-> i - 1 ], rows |-> rows ]

FramesOver(cols, choices) ==
  { Frame(cols, [ i \in DOMAIN rs |-> [ c \in Range(cols) |-> rs[i][c] ] ])
      : rs \in UNION { [1..n -> choices] : n \in 0..MaxRows } }

\* The column lists of the inputs that do not have exactly the survey's
\* headers: one header missing, one column already under its short name, an
\* additional column, a Seniority column, no column at all.
WithColumn(t, c, v) == SetCol(t, c, [r \in RowsOf(t) |-> v])
RenameOne(t, h) ==
  [ cols  |-> [ i \in DOMAIN t.cols |-> IF t.cols[i] = h THEN rename_map[h] ELSE t.cols[i] ],
    index |-> t.index,
    rows  |-> [ i \in DOMAIN t.rows |->
                  [ k \in (Range(t.cols) \ {h}) \cup {rename_map[h]} |->
                      IF k = rename_map[h] THEN t.rows[i][h] ELSE t.rows[i][k] ] ] ]

StandardInputs ==
  UNION { FramesOver(RawHeaders, g \cup {BaseRow, NullRow}) : g \in RowGroups }

OtherInputs ==
  LET ts == FramesOver(RawHeaders, {BaseRow, NullRow, PlainTitleRow})
  IN UNION { { DropCol(t, h) : h \in Range(RawHeaders) }
             \cup { RenameOne(t, h) : h \in Range(RawHeaders) \ {"Timestamp"} }
             \cup { WithColumn(t, "Extra", <<"x">>), WithColumn(t, "Seniority", <<"x">>),
                    SelectCols(t, <<>>) }
             : t \in ts }

\* Every column of an input holds text in some row, so that pandas holds it
\* as an object column (a frame without rows has object columns too).
HasObjectColumns(t) ==
  \A c \in Range(t.cols) : t.rows = <<>> \/ \E i \in DOMAIN t.rows : IsText(t.rows[i][c])

Inputs == { t \in StandardInputs \cup OtherInputs : HasObjectColumns(t) }

\* The second call of transform on its own output: the 18 columns under
\* their raw headers again, and the raw 'other currency' column of the first
\* call's input put back, row by row (by index label).
Resupply(out, raw) ==
  LET other == RawOf("Currency_Other")
      from(t, c) == IF HasCol(t, c) THEN c ELSE rename_map[c]
      renamed == [ i \in DOMAIN out.cols |->
                     IF out.cols[i] = "Seniority" THEN "Seniority" ELSE RawOf(out.cols[i]) ]
  IN [ cols  |-> Append(renamed, other),
       index |-> [ i \in DOMAIN out.index |-> i - 1 ],
       rows  |-> [ i \in DOMAIN out.rows |->
                     [ k \in Range(renamed) \cup {other} |->
                         IF k = other THEN raw.rows[out.index[i] + 1][from(raw, other)]
                         ELSE out.rows[i][RenameLabel(k)] ] ] ]

\* ------------------------------------------------------ the state machine
VARIABLES
  pc,        \* the statement of transform() that runs next; "done" after return
  arg,       \* the caller's DataFrame object
  df,        \* the frame the local variable df refers to
  shared,    \* df refers to the caller's object
  ret,       \* the frame transform() returned (when pc = "done")
  retIsArg,  \* the returned frame is the caller's object
  ran,       \* history: the operations executed by this call, in order
  failed,    \* history: the failures logged by this call
  input,     \* history: the caller's frame as it was when transform was called
  call,      \* 1 for a call on a raw table, 2 for the call on the first call's output
  first      \* the frame the first call returned (when call = 2)

vars == <<pc, arg, df, shared, ret, retIsArg, ran, failed, input, call, first>>

\* transformation_steps
transformation_steps ==
  << "_rename_columns", "_normalize_job_titles", "_standardize_annual_salaries",
     "_standardize_additional_comp", "_standardize_currency_other_cols",
     "_change_time_format", "_standardize_income_context", "_standardize_country",
     "_standardize_job_context", "_standardize_gender", "_standardize_race",
     "_standardize_education", "_standardize_experience",
     "_standardize_overall_experience", "_standardize_state", "_standardize_city" >>

StepIndex(name) == CHOOSE i \in DOMAIN transformation_steps : transformation_steps[i] = name

\* What runs after step `name` returned a non-empty frame.
AfterStep(name) ==
  IF StepIndex(name) = Len(transformation_steps) THEN "final"
  ELSE transformation_steps[StepIndex(name) + 1]

Init ==
  /\ arg \in Inputs
  /\ df = arg
  /\ input = arg
  /\ shared = TRUE
  /\ pc = "start"
  /\ ret = EmptyFrame
  /\ retIsArg = FALSE
  /\ ran = <<>>
  /\ failed = <<>>
  /\ call = 1
  /\ first = EmptyFrame

\* if df.empty: return df
CheckEmpty ==
  /\ pc = "start"
  /\ IF IsEmpty(df)
     THEN /\ pc' = "done"
          /\ ret' = df
          /\ retIsArg' = shared
     ELSE /\ pc' = "drop_duplicates"
          /\ UNCHANGED <<ret, retIsArg>>
  /\ UNCHANGED <<arg, df, shared, ran, failed, input, call, first>>

\* df_duplicates = df[df.duplicated(keep=False)]; if any, df = df.drop_duplicates()
RemoveDuplicates ==
  /\ pc = "drop_duplicates"
  /\ IF \E i \in DOMAIN df.rows : IsDuplicated(df, i)
     THEN /\ df' = drop_duplicates(df)
          /\ shared' = FALSE
          /\ ran' = Append(ran, "drop_duplicates")
     ELSE UNCHANGED <<df, shared, ran>>
  /\ pc' = "null_rows"
  /\ UNCHANGED <<arg, ret, retIsArg, failed, input, call, first>>

\* Mutant of RemoveNullRows: the result of dropna is assigned to df.
RemoveNullRowsAssigned ==
  /\ pc = "null_rows"
  /\ IF \E i \in DOMAIN df.rows : IsNullRow(df, i)
     THEN LET keep == SelectSeq([ i \in DOMAIN df.rows |-> i ], LAMBDA i : ~IsNullRow(df, i))
          IN /\ df' = [ cols  |-> df.cols,
                        index |-> [ n \in DOMAIN keep |-> df.index[keep[n]] ],
                        rows  |-> [ n \in DOMAIN keep |-> df.rows[keep[n]] ] ]
             /\ shared' = FALSE
             /\ ran' = Append(ran, "dropna")
     ELSE UNCHANGED <<df, shared, ran>>
  /\ pc' = transformation_steps[1]
  /\ UNCHANGED <<arg, ret, retIsArg, failed, input, call, first>>

\* all_null_rows = df[df.isnull().all(axis=1)]; if any, df.dropna(how="all"),
\* whose result is discarded: df is left as it is.
RemoveNullRows ==
  /\ pc = "null_rows"
  /\ ran' = IF \E i \in DOMAIN df.rows : IsNullRow(df, i) THEN Append(ran, "dropna") ELSE ran
  /\ pc' = transformation_steps[1]
  /\ UNCHANGED <<arg, df, shared, ret, retIsArg, failed, input, call, first>>

\* Mutant of RunStep: the loop does not stop at a step that returned an empty
\* table.
RunStepNoHalt(name, r) ==
  /\ pc = name
  /\ ran' = Append(ran, name)
  /\ df' = r.res
  /\ arg' = IF shared THEN r.obj ELSE arg
  /\ shared' = (shared /\ r.same)
  /\ failed' = IF IsEmpty(r.res) THEN Append(failed, name) ELSE failed
  /\ pc' = AfterStep(name)
  /\ UNCHANGED <<ret, retIsArg, input, call, first>>

\* One iteration of the loop over transformation_steps:
\*   df = step(df); if df.empty: return pd.DataFrame()
RunStep(name, r) ==
  /\ pc = name
  /\ ran' = Append(ran, name)
  /\ df' = r.res
  /\ arg' = IF shared THEN r.obj ELSE arg
  /\ shared' = (shared /\ r.same)
  /\ IF IsEmpty(r.res)
     THEN /\ pc' = "done"
          /\ ret' = EmptyFrame
          /\ retIsArg' = FALSE
          /\ failed' = Append(failed, name)
     ELSE /\ pc' = AfterStep(name)
          /\ UNCHANGED <<ret, retIsArg, failed>>
  /\ UNCHANGED <<input, call, first>>

RenameColumns == RunStep("_rename_columns", _rename_columns(df))
NormalizeJobTitles == RunStep("_normalize_job_titles", _normalize_job_titles(df))
StandardizeAnnualSalaries == RunStep("_standardize_annual_salaries", _standardize_annual_salaries(df))
StandardizeAdditionalComp == RunStep("_standardize_additional_comp", _standardize_additional_comp(df))
StandardizeCurrency == RunStep("_standardize_currency_other_cols", _standardize_currency_other_cols(df))
ChangeTimeFormat == RunStep("_change_time_format", _change_time_format(df))
StandardizeIncomeContext == RunStep("_standardize_income_context", _standardize_income_context(df))
StandardizeCountry == RunStep("_standardize_country", _standardize_country(df))
StandardizeJobContext == RunStep("_standardize_job_context", _standardize_job_context(df))
StandardizeGender == RunStep("_standardize_gender", _standardize_gender(df))
StandardizeRace == RunStep("_standardize_race", _standardize_race(df))
StandardizeEducation == RunStep("_standardize_education", _standardize_education(df))
StandardizeExperience == RunStep("_standardize_experience", _standardize_experience(df))
StandardizeOverallExperience == RunStep("_standardize_overall_experience", _standardize_overall_experience(df))
StandardizeState == RunStep("_standardize_state", _standardize_state(df))
StandardizeCity == RunStep("_standardize_city", _standardize_city(df))

\* df = df.replace(r'^\s*$', None, regex=True); df = df.map(...): new frames
FinalClean ==
  /\ pc = "final"
  /\ df' = FinalCleaning(df)
  /\ shared' = FALSE
  /\ ran' = Append(ran, "final")
  /\ pc' = "dtype_conversion"
  /\ UNCHANGED <<arg, ret, retIsArg, failed, input, call, first>>

\* df = self.dtype_conversion(df)
DtypeConversion ==
  /\ pc = "dtype_conversion"
  /\ df' = dtype_conversion(df)
  /\ arg' = IF shared THEN dtype_conversion(df) ELSE arg
  /\ ran' = Append(ran, "dtype_conversion")
  /\ pc' = "projection"
  /\ UNCHANGED <<shared, ret, retIsArg, failed, input, call, first>>

\* df = df[[...]]; return df.  A KeyError is caught by transform's own
\* except clause, which returns pd.DataFrame().
Project ==
  /\ pc = "projection"
  /\ ran' = Append(ran, "projection")
  /\ IF ProjectionRaises(df)
     THEN /\ ret' = EmptyFrame
          /\ failed' = Append(failed, "transform")
     ELSE /\ ret' = SelectCols(df, OutputColumns)
          /\ UNCHANGED failed
  /\ retIsArg' = FALSE
  /\ pc' = "done"
  /\ UNCHANGED <<arg, df, shared, input, call, first>>

\* The caller gives the table a successful first call returned back to
\* transform, under the raw headers.
CallAgain ==
  /\ pc = "done"
  /\ call = 1
  /\ ~IsEmpty(ret)
  /\ arg' = Resupply(ret, input)
  /\ df' = arg'
  /\ input' = arg'
  /\ shared' = TRUE
  /\ first' = ret
  /\ call' = 2
  /\ pc' = "start"
  /\ ret' = EmptyFrame
  /\ retIsArg' = FALSE
  /\ ran' = <<>>
  /\ failed' = <<>>

Next ==
  \/ CheckEmpty
  \/ RemoveDuplicates
  \/ RemoveNullRows
  \/ RenameColumns
  \/ NormalizeJobTitles
  \/ StandardizeAnnualSalaries
  \/ StandardizeAdditionalComp
  \/ StandardizeCurrency
  \/ ChangeTimeFormat
  \/ StandardizeIncomeContext
  \/ StandardizeCountry
  \/ StandardizeJobContext
  \/ StandardizeGender
  \/ StandardizeRace
  \/ StandardizeEducation
  \/ StandardizeExperience
  \/ StandardizeOverallExperience
  \/ StandardizeState
  \/ StandardizeCity
  \/ FinalClean
  \/ DtypeConversion
  \/ Project
  \/ CallAgain

Spec == Init /\ [][Next]_vars

\* ------------------------------------------------------------- the claims
\* The call has returned.
Returned == pc = "done"

\* The input of the call has rows and columns (df.empty is False).
InputHasCells == Len(input.index) > 0 /\ Len(input.cols) > 0

\* The call ran to the end of transform() without a logged failure.
Succeeded == Returned /\ InputHasCells /\ failed = <<>>

\* The raw cell of an output row: the cell of the input row with the same
\* index label, in the column that holds the short name's answers.
RawCell(label, short) ==
  input.rows[label + 1][IF HasCol(input, RawOf(short)) THEN RawOf(short) ELSE short]

NonNullColumns == {"Gender", "Race", "Education", "Experience", "Experience_Overall"}
DefaultOf(c) ==
  CASE c \in {"Gender", "Education"} -> "Prefer not to say"
    [] c = "Race" -> "Other"
    [] c \in {"Experience", "Experience_Overall"} -> "0-1 years"

\* C1 (as stated): whenever transform has returned, the returned table has
\* no rows and no columns, or exactly the 18 columns of the projection in
\* their order.
C1_AsStated ==
  Returned =>
    \/ ret.cols = <<>> /\ ret.index = <<>>
    \/ ret.cols = OutputColumns

\* C1 (amended): whenever transform has returned, the returned table is the
\* input itself when the input has no rows or no columns, and otherwise
\* either has no rows and no columns or has exactly the 18 columns of the
\* projection in their order, every row holding exactly these columns.
C1_Columns ==
  Returned =>
    IF ~InputHasCells THEN ret = input
    ELSE \/ ret = EmptyFrame
         \/ /\ ret.cols = OutputColumns
            /\ \A i \in DOMAIN ret.rows : DOMAIN ret.rows[i] = Range(OutputColumns)

\* An input with an additional column was transformed to a table with rows.
C1_Witness ==
  /\ Returned /\ call = 1
  /\ HasCol(input, "Extra")
  /\ ret.cols = OutputColumns /\ Len(ret.rows) > 0

\* C2: in every row of a returned table that has rows and columns, Gender,
\* Race, Education, Experience and Experience_Overall are non-blank text, and
\* are the column's default when the raw cell was missing or blank.
C2_NonNull ==
  Returned /\ ~(Len(ret.index) = 0 \/ Len(ret.cols) = 0) =>
    \A i \in DOMAIN ret.rows : \A c \in NonNullColumns :
      /\ ret.rows[i][c] # NULL
      /\ ~IsBlank(ret.rows[i][c])
      /\ LET raw == RawCell(ret.index[i], c)
         IN (raw = NULL \/ IsBlank(raw)) => Join(ret.rows[i][c]) = DefaultOf(c)

\* A returned row whose raw Gender was missing and whose raw Race was blank
\* or missing.
C2_Witness ==
  /\ Returned /\ call = 1 /\ Len(ret.rows) > 0 /\ Len(ret.cols) > 0
  /\ \E i \in DOMAIN ret.rows :
       /\ RawCell(ret.index[i], "Gender") = NULL
       /\ Join(ret.rows[i]["Gender"]) = "Prefer not to say"
       /\ Join(ret.rows[i]["Experience"]) = "0-1 years"

\* The input lacks the raw header h.
LacksHeader(h) == ~HasCol(input, h)
\* The input lacks the column of raw header h under both of its names.
LacksColumn(h) == ~HasCol(input, h) /\ ~HasCol(input, rename_map[h])

\* C3 (as stated): a call on an input with rows and columns that lacks one of
\* the 18 raw headers returns a table without rows and columns.
C3_AsStated ==
  Returned /\ InputHasCells /\ (\E h \in Range(RawHeaders) : LacksHeader(h)) =>
    ret = EmptyFrame

\* C3 (amended): a call on an input with rows and columns that lacks one of
\* the 18 columns under both its raw header and its short name, and a call in
\* which a step or the projection failed, returns a new table without rows
\* and columns.
C3_EmptyOnFailure ==
  Returned /\ InputHasCells
    /\ ((\E h \in Range(RawHeaders) : LacksColumn(h)) \/ failed # <<>>) =>
    ret = EmptyFrame /\ ~retIsArg

\* A call on an input that lacks the 'other currency' column has failed in
\* the currency step and returned the empty table.
C3_Witness ==
  /\ Returned /\ call = 1 /\ InputHasCells
  /\ LacksColumn(RawOf("Currency_Other"))
  /\ failed = <<"_standardize_currency_other_cols">>
  /\ ret = EmptyFrame

\* C4: a call on an input without rows returns the caller's table itself,
\* unchanged, having executed no operation and logged no failure.
C4_EmptyInput ==
  Returned /\ Len(input.index) = 0 =>
    ret = input /\ retIsArg /\ arg = input /\ ran = <<>> /\ failed = <<>>

\* A call on an input with the survey's columns and no rows has returned.
C4_Witness ==
  /\ Returned /\ Len(input.index) = 0 /\ input.cols = RawHeaders
  /\ ret = input

\* C5: the call on the first call's output (under the raw headers, with the
\* 'other currency' column put back) returns a table equal to the first
\* call's, column for column, row for row and cell for cell.
C5_Idempotent ==
  Returned /\ call = 2 => ret.cols = first.cols /\ ret.rows = first.rows

\* C6: no two rows of the table returned by a successful call are equal in
\* all 18 fields.
C6_NoDuplicateRows ==
  Succeeded =>
    \A i \in DOMAIN ret.rows : \A j \in DOMAIN ret.rows : i # j => ret.rows[i] # ret.rows[j]

C8_NoSideEffect == Returned => arg = input

\* C9: no cell of a table returned by a successful call is an empty or
\* whitespace-only text.
C9_NoBlankCell ==
  Succeeded =>
    \A i \in DOMAIN ret.rows : \A c \in DOMAIN ret.rows[i] :
      ret.rows[i][c] = NULL \/ ~IsBlank(ret.rows[i][c])

\* A successful call turned a whitespace-only Age into a missing value.
C9_Witness ==
  /\ Succeeded /\ call = 1
  /\ \E i \in DOMAIN ret.rows :
       /\ RawCell(ret.index[i], "Age") = <<" ", "\t">>
       /\ ret.rows[i]["Age"] = NULL

\* The keywords of the seniority pattern.
SeniorityKeywords ==
  { "sr", "senior", "lead", "principal", "jr", "junior", "chief", "director", "manager",
    "assistant", "associate", "head", "coordinator", "i", "ii", "iii", "iv", "v" }

\* The words of a text: its maximal runs of word characters, left to right.
RECURSIVE WordRun(_)
WordRun(s) == IF s = <<>> \/ ~IsWord(Head(s)) THEN <<>> ELSE <<Head(s)>> \o WordRun(Tail(s))
RECURSIVE WordsOf(_)
WordsOf(s) ==
  IF s = <<>> THEN <<>>
  ELSE IF ~IsWord(Head(s)) THEN WordsOf(Tail(s))
  ELSE LET w == WordRun(s) IN <<Join(w)>> \o WordsOf(SubSeq(s, Len(w) + 1, Len(s)))

\* The title as the claim describes it: lower-cased, the characters that are
\* neither word characters nor whitespace deleted, whitespace runs collapsed
\* to one space, the ends trimmed.
ClaimedTitle(raw) ==
  LET kept == SelectSeq(Lower(raw), LAMBDA c : IsWord(c) \/ IsSpace(c))
  IN Strip(CollapseSpaces(kept))

\* The label of the leftmost word of the title that is a keyword, or NULL.
ClaimedSeniority(title) ==
  LET ws == WordsOf(title)
      hits == { n \in DOMAIN ws : ws[n] \in SeniorityKeywords }
  IN IF hits = {} THEN NULL
     ELSE seniority_map[ws[CHOOSE n \in hits : \A m \in hits : n <= m]]

\* C10 (as stated, an emptied title read as missing): after a call on a table
\* with rows under the 18 raw headers, every raw row with a text Job_Title has
\* (at its first occurrence) an output row whose Job_Title is the claimed
\* title and whose Seniority is the label of its leftmost keyword word, or
\* missing when it has none.
C10_AsStated ==
  Returned /\ InputHasCells /\ input.cols = RawHeaders =>
    \A k \in DOMAIN input.rows :
      LET raw == RawCell(input.index[k], "Job_Title")
      IN raw # NULL /\ (\A j \in 1..(k - 1) : input.rows[j] # input.rows[k]) =>
           \E i \in DOMAIN ret.rows :
             /\ ret.index[i] = input.index[k]
             /\ ret.rows[i]["Job_Title"] =
                  (IF ClaimedTitle(raw) = <<>> THEN NULL ELSE ClaimedTitle(raw))
             /\ ret.rows[i]["Seniority"] = ClaimedSeniority(ClaimedTitle(raw))

\* Some raw title of the input holds a seniority keyword as a whole word.
SomeTitleHasKeyword ==
  input.cols = RawHeaders /\ \E k \in DOMAIN input.rows :
    LET raw == RawCell(input.index[k], "Job_Title")
    IN raw # NULL /\ ClaimedSeniority(ClaimedTitle(raw)) # NULL

\* C10 (what the code does): the statement above holds of the calls in which
\* some title of the table holds a keyword; a table with text titles none of
\* which holds a keyword is answered with the empty table.
C10_TitleAndSeniority ==
  /\ SomeTitleHasKeyword => C10_AsStated
  /\ Returned /\ InputHasCells /\ input.cols = RawHeaders /\ ~SomeTitleHasKeyword
       /\ (\E k \in DOMAIN input.rows : RawCell(input.index[k], "Job_Title") # NULL)
       => ret = EmptyFrame /\ failed = <<"_normalize_job_titles">>

\* A call on a table whose text titles are "Civil Dev" (keywords only inside
\* a longer word) has returned the empty table.
C10_Witness ==
  /\ Returned /\ call = 1 /\ InputHasCells /\ input.cols = RawHeaders
  /\ \E k \in DOMAIN input.rows : Join(RawCell(input.index[k], "Job_Title")) = "Civil Dev"
  /\ ~SomeTitleHasKeyword
  /\ ret = EmptyFrame
\* The whitespace-separated words of a text, left to right.
RECURSIVE SpaceRun(_)
SpaceRun(s) == IF s = <<>> \/ IsSpace(Head(s)) THEN <<>> ELSE <<Head(s)>> \o SpaceRun(Tail(s))
RECURSIVE SpaceWords(_)
SpaceWords(s) ==
  IF s = <<>> THEN <<>>
  ELSE IF IsSpace(Head(s)) THEN SpaceWords(Tail(s))
  ELSE LET w == SpaceRun(s) IN <<w>> \o SpaceWords(SubSeq(s, Len(w) + 1, Len(s)))

\* The words joined by single spaces: the text with its whitespace runs
\* collapsed and its ends trimmed.
RECURSIVE JoinWords(_)
JoinWords(ws) ==
  IF ws = <<>> THEN <<>>
  ELSE IF Len(ws) = 1 THEN ws[1]
  ELSE ws[1] \o <<" ">> \o JoinWords(Tail(ws))

\* The currency as the claim describes it, before the table: the other-currency
\* field when Currency contains "other" in any letter case, else Currency;
\* upper-cased, parenthesised annotations removed, characters outside A-Z and
\* '/' made spaces, whitespace collapsed and trimmed.
ClaimedCurrencyText(cur, other) ==
  LET chosen == IF cur # NULL /\ Contains(Lower(cur), "other") THEN other ELSE cur
  IN IF chosen = NULL THEN NULL
     ELSE LET blanked == [ i \in DOMAIN RemoveParenthesized(Upper(chosen)) |->
                           LET ch == RemoveParenthesized(Upper(chosen))[i]
                           IN IF ch = "/" \/ (Ord(ch) >= 65 /\ Ord(ch) <= 90)
                              THEN ch ELSE " " ]
          IN JoinWords(SpaceWords(blanked))

\* The entry of the currency table for a cleaned text, the text itself when
\* the table has none.
ClaimedCurrency(cur, other) ==
  LET v == ClaimedCurrencyText(cur, other)
  IN IF v # NULL /\ Join(v) \in DOMAIN replace_map THEN replace_map[Join(v)] ELSE v

\* C11 (as stated): in every row of a successful call's output, Currency is
\* the claimed currency of the row's raw Currency and other-currency cells
\* (missing when the chosen cell is missing).
C11_AsStated ==
  Succeeded =>
    \A i \in DOMAIN ret.rows :
      ret.rows[i]["Currency"] =
        ClaimedCurrency(RawCell(ret.index[i], "Currency"), RawCell(ret.index[i], "Currency_Other"))

\* C11 (amended): as stated, but Currency is missing when nothing remains of
\* the chosen value after cleaning.
C11_Currency ==
  Succeeded =>
    \A i \in DOMAIN ret.rows :
      LET v == ClaimedCurrency(RawCell(ret.index[i], "Currency"),
                               RawCell(ret.index[i], "Currency_Other"))
      IN ret.rows[i]["Currency"] = (IF v = <<>> THEN NULL ELSE v)

\* A successful call on raw Currency "Other" with other-currency
\* "Swiss Francs" and on raw Currency "US Dollar".
C11_Witness ==
  /\ Succeeded /\ call = 1
  /\ \E i \in DOMAIN ret.rows :
       /\ Join(RawCell(ret.index[i], "Currency")) = "Other"
       /\ RawCell(ret.index[i], "Currency_Other") # NULL
       /\ Join(RawCell(ret.index[i], "Currency_Other")) = "Swiss Francs"
       /\ Join(ret.rows[i]["Currency"]) = "SWISS FRANCS"
  /\ \E i \in DOMAIN ret.rows :
       /\ Join(RawCell(ret.index[i], "Currency")) = "US Dollar"
       /\ Join(ret.rows[i]["Currency"]) = "USD"

\* The text with every character other than 0-9 and '.' deleted.
ClaimedSalary(raw) ==
  SelectSeq(raw, LAMBDA c : c = "." \/ (Ord(c) >= 48 /\ Ord(c) <= 57))

\* C12: in every row of a successful call's output whose raw Annual_Salary is
\* text, Annual_Salary is the raw text without the characters other than
\* digits and '.', and is missing when nothing remains.
C12_AnnualSalary ==
  Succeeded =>
    \A i \in DOMAIN ret.rows :
      LET raw == RawCell(ret.index[i], "Annual_Salary")
      IN raw # NULL =>
           ret.rows[i]["Annual_Salary"] =
             (IF ClaimedSalary(raw) = <<>> THEN NULL ELSE ClaimedSalary(raw))

\* A successful call on raw salaries "$85,000" (output "85000") and "abc"
\* (output missing).
C12_Witness ==
  /\ Succeeded /\ call = 1
  /\ \E i \in DOMAIN ret.rows :
       /\ Join(RawCell(ret.index[i], "Annual_Salary")) = "$85,000"
       /\ Join(ret.rows[i]["Annual_Salary"]) = "85000"
  /\ \E i \in DOMAIN ret.rows :
       /\ Join(RawCell(ret.index[i], "Annual_Salary")) = "abc"
       /\ ret.rows[i]["Annual_Salary"] = NULL

\* The text before the first comma of a text (the whole text when it has none).
BeforeFirstComma(s) ==
  LET commas == { p \in DOMAIN s : s[p] = "," }
  IN IF commas = {} THEN s
     ELSE SubSeq(s, 1, (CHOOSE p \in commas : \A q \in commas : p <= q) - 1)

\* The text without its leading and trailing whitespace.
Trimmed(s) ==
  LET inked == { p \in DOMAIN s : ~IsSpace(s[p]) }
  IN IF inked = {} THEN <<>>
     ELSE SubSeq(s, CHOOSE p \in inked : \A q \in inked : p <= q,
                    CHOOSE p \in inked : \A q \in inked : p >= q)

\* The segments the claim lists as standing for a missing state.
ClaimedStateNulls == {"0", "nan", "NaN", "None", "", "null"}

\* C13: in every row of a successful call's output, State is the trimmed text
\* before the first comma of the raw State, and is missing when the raw State
\* is missing or that segment is one of the listed ones; a State that is not
\* missing holds no comma and neither starts nor ends with whitespace.
C13_State ==
  Succeeded =>
    \A i \in DOMAIN ret.rows :
      LET raw == RawCell(ret.index[i], "State")
          out == ret.rows[i]["State"]
      IN /\ out = (IF raw = NULL \/ Join(Trimmed(BeforeFirstComma(raw))) \in ClaimedStateNulls
                   THEN NULL ELSE Trimmed(BeforeFirstComma(raw)))
         /\ out # NULL =>
              /\ \A p \in DOMAIN out : out[p] # ","
              /\ out # <<>> /\ ~IsSpace(out[1]) /\ ~IsSpace(out[Len(out)])

\* A successful call on raw states "California, US" (output "California")
\* and "null" (output missing).
C13_Witness ==
  /\ Succeeded /\ call = 1
  /\ \E i \in DOMAIN ret.rows :
       /\ Join(RawCell(ret.index[i], "State")) = "California, US"
       /\ Join(ret.rows[i]["State"]) = "California"
  /\ \E i \in DOMAIN ret.rows :
       /\ Join(RawCell(ret.index[i], "State")) = "null"
       /\ ret.rows[i]["State"] = NULL

\* The city the claim derives from a text: missing when the trimmed,
\* whitespace-collapsed text is empty, "nan", "None" or "NaN" or when its
\* lower-cased form is an entry of the denylist, else that text title-cased.
ClaimedCity(text) ==
  LET form == JoinWords(SpaceWords(text))
  IN IF Join(form) \in {"", "nan", "None", "NaN"} \/ Join(Lower(form)) \in invalid_entries
     THEN NULL ELSE Title(form)

\* C14 (as stated): in every row of a successful call's output, City is the
\* claimed city of the raw City, and missing when the raw City is missing.
C14_AsStated ==
  Succeeded =>
    \A i \in DOMAIN ret.rows :
      LET raw == RawCell(ret.index[i], "City")
      IN ret.rows[i]["City"] = (IF raw = NULL THEN NULL ELSE ClaimedCity(raw))

\* C14 (what the code does): in every row of a successful call's output, City
\* is the claimed city of the raw City after the Latin-1/UTF-8 re-encoding
\* pass, which deletes the characters that are not mis-decoded UTF-8, and
\* missing when the raw City is missing; no City that is not missing is an
\* entry of the denylist when lower-cased.
C14_City ==
  Succeeded =>
    \A i \in DOMAIN ret.rows :
      LET raw == RawCell(ret.index[i], "City")
          out == ret.rows[i]["City"]
      IN /\ out = (IF raw = NULL THEN NULL ELSE ClaimedCity(Reencode(raw)))
         /\ out # NULL => Join(Lower(out)) \notin invalid_entries

\* A successful call on raw cities " ReMoTe " (output missing) and
\* "Al" followed by U+00E9 (output "Al").
C14_Witness ==
  /\ Succeeded /\ call = 1
  /\ \E i \in DOMAIN ret.rows :
       /\ Join(RawCell(ret.index[i], "City")) = " ReMoTe "
       /\ ret.rows[i]["City"] = NULL
  /\ \E i \in DOMAIN ret.rows :
       /\ RawCell(ret.index[i], "City") = <<"A", "l", "U+00E9">>
       /\ Join(ret.rows[i]["City"]) = "Al"

\* The cleaning steps this call has executed, in the order of execution.
StepsRun == SelectSeq(ran, LAMBDA op : op \in Range(transformation_steps))

\* The operations that follow the step loop.
AfterLoop == {"final", "dtype_conversion", "projection"}

\* C15: at every moment of a call, the steps executed so far are the first
\* steps of the fixed list, each once and in its order; a step that returned
\* an empty table is the last operation executed, transform has returned the
\* empty table and nothing after the loop was executed; the final cleanup runs
\* only after all 16 steps returned a table with rows.
C15_StepOrder ==
  /\ StepsRun = SubSeq(transformation_steps, 1, Len(StepsRun))
  /\ (pc \in Range(transformation_steps) =>
        /\ failed = <<>>
        /\ Len(StepsRun) = StepIndex(pc) - 1
        /\ ~IsEmpty(df))
  /\ \A k \in DOMAIN failed : failed[k] \in Range(transformation_steps) =>
       /\ Len(failed) = 1
       /\ ran[Len(ran)] = failed[k]
       /\ pc = "done" /\ ret = EmptyFrame
       /\ \A n \in DOMAIN ran : ran[n] \notin AfterLoop
  /\ ((\E n \in DOMAIN ran : ran[n] \in AfterLoop) =>
        /\ StepsRun = transformation_steps
        /\ \A k \in DOMAIN failed : failed[k] \notin Range(transformation_steps))

\* A call in which the first 14 steps returned a table with rows and the
\* 15th, the state step, returned the empty table.
C15_Witness ==
  /\ Returned /\ call = 1
  /\ failed = <<"_standardize_state">>
  /\ Len(StepsRun) = 15
  /\ ret = EmptyFrame

\* Row k of the input holds a missing value in every column.
InputRowIsNull(k) == \A c \in Range(input.cols) : input.rows[k][c] = NULL

\* The output row the claim derives from a raw row without any value.
ClaimedNullRow ==
  [ c \in Range(OutputColumns) |->
      IF c \in NonNullColumns
      THEN CASE c = "Gender" -> <<"P", "r", "e", "f", "e", "r", " ", "n", "o", "t", " ", "t", "o", " ", "s", "a", "y">>
             [] c = "Education" -> <<"P", "r", "e", "f", "e", "r", " ", "n", "o", "t", " ", "t", "o", " ", "s", "a", "y">>
             [] c = "Race" -> <<"O", "t", "h", "e", "r">>
             [] OTHER -> <<"0", "-", "1", " ", "y", "e", "a", "r", "s">>
      ELSE NULL ]

OneSpacePerRun(s) ==
  LET kept == SelectSeq([ p \in DOMAIN s |-> p ],
                        LAMBDA p : ~IsSpace(s[p]) \/ p = 1 \/ ~IsSpace(s[p - 1]))
  IN [ n \in DOMAIN kept |-> IF IsSpace(s[kept[n]]) THEN " " ELSE s[kept[n]] ]

\* The key the claim looks up: the text lower-cased, the characters other
\* than a-z and whitespace deleted, whitespace runs made one space.
ClaimedCountryKey(raw) ==
  Join(OneSpacePerRun(SelectSeq(Lower(raw),
         LAMBDA c : IsSpace(c) \/ (Ord(c) >= 97 /\ Ord(c) <= 122))))

\* The canonical country names the claim lists.
CanonicalCountries ==
  { "United States", "United Kingdom", "Canada", "Australia", "New Zealand", "Mexico",
    "France", "Germany", "Netherlands", "India", "Japan", "Global", "Europe", "Africa" }

\* C17: in every row of a successful call's output, Country is the alias
\* table's value for the key of the raw Country when the table has that key,
\* and is missing otherwise; a Country that is not missing is one of the
\* canonical names.
C17_Country ==
  Succeeded =>
    \A i \in DOMAIN ret.rows :
      LET raw == RawCell(ret.index[i], "Country")
          out == ret.rows[i]["Country"]
      IN /\ out = (IF raw # NULL /\ ClaimedCountryKey(raw) \in DOMAIN country_map
                   THEN country_map[ClaimedCountryKey(raw)] ELSE NULL)
         /\ out # NULL => Join(out) \in CanonicalCountries

\* A successful call on raw countries "U.S.A." (output "United States") and
\* "Narnia" (output missing).
C17_Witness ==
  /\ Succeeded /\ call = 1
  /\ \E i \in DOMAIN ret.rows :
       /\ Join(RawCell(ret.index[i], "Country")) = "U.S.A."
       /\ Join(ret.rows[i]["Country"]) = "United States"
  /\ \E i \in DOMAIN ret.rows :
       /\ Join(RawCell(ret.index[i], "Country")) = "Narnia"
       /\ ret.rows[i]["Country"] = NULL

\* The range phrases on which the claim says the two fields agree.
CommonRangePhrases ==
  { "1 year or less", "2 - 4 years", "5-7 years", "8 - 10 years", "11 - 20 years",
    "21 - 30 years", "41 years or more" }

ThirtyToForty == <<"3", "0", "-", "4", "0", " ", "y", "e", "a", "r", "s">>

\* The experience the claim derives from a trimmed text for a field:
\* "30-40 years" for the field's own phrase, the common result for a common
\* phrase, and the text itself otherwise.
ClaimedExperience(field, text) ==
  LET own == IF field = "Experience" THEN "30 - 40 years" ELSE "31 - 40 years"
  IN IF Join(text) = own THEN ThirtyToForty
     ELSE IF Join(text) \in CommonRangePhrases THEN experience_map[Join(text)]
     ELSE text

\* C18: in every row of a successful call's output, Experience and
\* Experience_Overall of a raw text that is not blank are the claimed
\* experience of the trimmed text for that field.
C18_ExperienceTables ==
  Succeeded =>
    \A i \in DOMAIN ret.rows : \A c \in {"Experience", "Experience_Overall"} :
      LET raw == RawCell(ret.index[i], c)
      IN raw # NULL /\ ~IsBlank(raw) =>
           ret.rows[i][c] = ClaimedExperience(c, Trimmed(raw))

\* A successful call on a row with Experience "30 - 40 years" and
\* Experience_Overall "31 - 40 years" (both output "30-40 years") and a row
\* with the two phrases exchanged (both output unchanged).
C18_Witness ==
  /\ Succeeded /\ call = 1
  /\ \E i \in DOMAIN ret.rows :
       /\ Join(RawCell(ret.index[i], "Experience")) = "30 - 40 years"
       /\ Join(RawCell(ret.index[i], "Experience_Overall")) = "31 - 40 years"
       /\ ret.rows[i]["Experience"] = ThirtyToForty
       /\ ret.rows[i]["Experience_Overall"] = ThirtyToForty
  /\ \E i \in DOMAIN ret.rows :
       /\ Join(RawCell(ret.index[i], "Experience")) = "31 - 40 years"
       /\ Join(RawCell(ret.index[i], "Experience_Overall")) = "30 - 40 years"
       /\ Join(ret.rows[i]["Experience"]) = "31 - 40 years"
       /\ Join(ret.rows[i]["Experience_Overall"]) = "30 - 40 years"

\* The index labels of the input rows that are the first occurrence of their
\* raw row, in input order.
DistinctLabels ==
  LET firsts == SelectSeq([ k \in DOMAIN input.rows |-> k ],
                          LAMBDA k : \A j \in 1..(k - 1) : input.rows[j] # input.rows[k])
  IN [ n \in DOMAIN firsts |-> input.index[firsts[n]] ]

\* From the first cleaning step to the projection, the working table holds
\* the first occurrences of the raw rows, in input order.
RowsKept ==
  pc \in Range(transformation_steps) \cup AfterLoop => df.index = DistinctLabels

====
